---------------------------- MODULE Spec2Model ----------------------------
(***************************************************************************)
(* A Visit from El Chupacabras (src/main.py): the room graph, the player,  *)
(* the command interpreter, the play loop and the replay driver.           *)
(*                                                                         *)
(* Python strings are TLA+ strings, handled character by character with    *)
(* Len, SubSeq and \o.  Python's None is the string "None" in the places   *)
(* that otherwise hold a string (a reference, an outcome).  The nested     *)
(* dictionaries of rooms_config are objects on a heap (dicts), so that a   *)
(* Room shares its item and exits dictionaries with rooms_config, as       *)
(* RoomFactory.create_room passes them.                                    *)
(***************************************************************************)
EXTENDS Integers, Sequences, FiniteSets, TLC

VARIABLES
    rooms_config,      \* module global: room name -> [name, item, exits], item and exits are references into dicts
    dicts,             \* the heap of the dictionaries nested in rooms_config: reference -> contents
    game,              \* main's Game object: [rooms, player, total_items]
    game_is_finished,  \* play's loop flag
    outcome,           \* play's local player_outcome, as last assigned
    output,            \* what the last loop iteration printed (lines 401-409)
    start_over_input,  \* main's local, as last assigned
    walked,            \* lines read in this session while they follow Walkthrough, else Off
    pc                 \* "play": at the prompt of play; "play_again": at main's prompt; "exit"

vars == <<rooms_config, dicts, game, game_is_finished, outcome, output,
          start_over_input, walked, pc>>

None == "None"
Unbound == "<unbound>"

----------------------------------------------------------------------------
(* str.lower, str.strip, str.split, str.join *)

Whitespace == {" ", "\t"}
UpperCase == "ABCDEFGHIJKLMNOPQRSTUVWXYZ"
LowerCase == "abcdefghijklmnopqrstuvwxyz"

lower_char(c) ==
    IF \E i \in 1..Len(UpperCase) : SubSeq(UpperCase, i, i) = c
    THEN LET i == CHOOSE i \in 1..Len(UpperCase) : SubSeq(UpperCase, i, i) = c
         IN  SubSeq(LowerCase, i, i)
    ELSE c

RECURSIVE lower(_)
lower(s) ==
    IF s = "" THEN ""
    ELSE lower_char(SubSeq(s, 1, 1)) \o lower(SubSeq(s, 2, Len(s)))

RECURSIVE lstrip(_)
lstrip(s) ==
    IF s # "" /\ SubSeq(s, 1, 1) \in Whitespace
    THEN lstrip(SubSeq(s, 2, Len(s)))
    ELSE s

RECURSIVE rstrip(_)
rstrip(s) ==
    IF s # "" /\ SubSeq(s, Len(s), Len(s)) \in Whitespace
    THEN rstrip(SubSeq(s, 1, Len(s) - 1))
    ELSE s

strip(s) == rstrip(lstrip(s))

\* split(): the maximal runs of non-whitespace characters, in order
RECURSIVE split_from(_, _, _, _)
split_from(s, i, word, words) ==
    IF i > Len(s)
    THEN IF word = "" THEN words ELSE Append(words, word)
    ELSE IF SubSeq(s, i, i) \in Whitespace
         THEN split_from(s, i + 1, "",
                         IF word = "" THEN words ELSE Append(words, word))
         ELSE split_from(s, i + 1, word \o SubSeq(s, i, i), words)

split(s) == split_from(s, 1, "", <<>>)

\* join that drops the separator
RECURSIVE join_no_sep(_, _)
join_no_sep(sep, words) ==
    IF words = <<>> THEN ""
    ELSE words[1] \o join_no_sep(sep, Tail(words))

RECURSIVE join(_, _)
join(sep, words) ==
    IF words = <<>> THEN ""
    ELSE IF Len(words) = 1 THEN words[1]
    ELSE words[1] \o sep \o join(sep, Tail(words))

----------------------------------------------------------------------------
(* the lines typed at the prompts *)

\* the nineteen commands that collect the six items and then enter the backyard
Walkthrough ==
    <<"go north", "get pro camera", "go west", "get shampoo bottle", "go east",
      "go east", "get frying pan", "go north", "get rope", "go south",
      "go west", "go south", "go east", "get goat plushie", "go west",
      "go north", "go north", "get machete", "go east">>

Off == -1

Commands == {Walkthrough[i] : i \in 1..Len(Walkthrough)}

QuitLines == {"q", "Q"}

OtherLines ==
    {"", "   ", "jump", "go", "get", " GO ", "go up", "north", "quit", " q",
     "get pro", "get camera", "GO  North", " get\tPro   Camera ",
     "go south now", "get go north", "go up there", "go east west",
     "q ", " Q\t"}

Inputs == Commands \cup QuitLines \cup OtherLines

Answers == {"y", "n"}

\* str.lower() of each line that can be typed (lines 398 and 486)
Lowered == [line \in Inputs \cup Answers |-> lower(line)]

\* Tokens without the lower()
Tokens_case_kept == [user_input \in Inputs |-> split(strip(user_input))]

\* line 344, user_input.lower().strip().split(), of each line that can be typed
Tokens == [user_input \in Inputs |-> split(strip(lower(user_input)))]

----------------------------------------------------------------------------
(* rooms_config *)

room_names == <<"bedroom", "living room", "kids' room", "storage room",
                "kitchen", "bathroom", "garage", "backyard">>

RoomNames == {room_names[i] : i \in 1..Len(room_names)}

\* the rooms whose "item" entry is a dictionary, not None
ItemRooms == {"living room", "kids' room", "storage room", "kitchen",
              "bathroom", "garage"}

\* references to the dictionaries nested in rooms_config
ItemRef(room) == "item of " \o room
ExitsRef(room) == "exits of " \o room

\* the "item" dictionaries of lines 418-467
item_literal(room) ==
    CASE room = "living room" ->
           [item_name |-> "pro camera",
            item_use  |-> "document clear proof of the existence of el Chupacabras"]
      [] room = "kids' room" ->
           [item_name |-> "goat plushie", item_use |-> "distract el Chupacabras"]
      [] room = "storage room" ->
           [item_name |-> "machete", item_use |-> "kill el Chupacabras if you have to"]
      [] room = "kitchen" ->
           [item_name |-> "frying pan", item_use |-> "knock out el Chupacabras"]
      [] room = "bathroom" ->
           [item_name |-> "shampoo bottle", item_use |-> "blind el Chupacabras"]
      [] room = "garage" ->
           [item_name |-> "rope", item_use |-> "tie up el Chupacabras"]

\* exits_literal with the garage's south exit leading to the living room
exits_literal_oneway(room) ==
    CASE room = "bedroom" -> [north |-> "living room", east |-> "kids' room"]
      [] room = "living room" ->
           [north |-> "storage room", east |-> "kitchen",
            south |-> "bedroom", west |-> "bathroom"]
      [] room = "kids' room" -> [west |-> "bedroom"]
      [] room = "storage room" -> [east |-> "backyard", south |-> "living room"]
      [] room = "kitchen" -> [north |-> "garage", west |-> "living room"]
      [] room = "bathroom" -> [east |-> "living room"]
      [] room = "garage" -> [south |-> "living room"]
      [] room = "backyard" -> [west |-> "storage room"]

\* exits_literal with the kitchen's north exit naming a room that is not configured
exits_literal_misspelt(room) ==
    CASE room = "bedroom" -> [north |-> "living room", east |-> "kids' room"]
      [] room = "living room" ->
           [north |-> "storage room", east |-> "kitchen",
            south |-> "bedroom", west |-> "bathroom"]
      [] room = "kids' room" -> [west |-> "bedroom"]
      [] room = "storage room" -> [east |-> "backyard", south |-> "living room"]
      [] room = "kitchen" -> [north |-> "Garage", west |-> "living room"]
      [] room = "bathroom" -> [east |-> "living room"]
      [] room = "garage" -> [south |-> "kitchen"]
      [] room = "backyard" -> [west |-> "storage room"]

\* the "exits" dictionaries of lines 418-467
exits_literal(room) ==
    CASE room = "bedroom" -> [north |-> "living room", east |-> "kids' room"]
      [] room = "living room" ->
           [north |-> "storage room", east |-> "kitchen",
            south |-> "bedroom", west |-> "bathroom"]
      [] room = "kids' room" -> [west |-> "bedroom"]
      [] room = "storage room" -> [east |-> "backyard", south |-> "living room"]
      [] room = "kitchen" -> [north |-> "garage", west |-> "living room"]
      [] room = "bathroom" -> [east |-> "living room"]
      [] room = "garage" -> [south |-> "kitchen"]
      [] room = "backyard" -> [west |-> "storage room"]

\* the outer dictionary of lines 418-467 and the per-room dictionaries
rooms_config_literal ==
    [room \in RoomNames |->
        [name  |-> room,
         item  |-> IF room \in ItemRooms THEN ItemRef(room) ELSE None,
         exits |-> ExitsRef(room)]]

\* the heap as the module is loaded: each nested dictionary under its reference
dicts_literal ==
    [ref \in {ItemRef(r) : r \in ItemRooms} \cup {ExitsRef(r) : r \in RoomNames} |->
        IF ref \in {ItemRef(r) : r \in ItemRooms}
        THEN item_literal(CHOOSE r \in ItemRooms : ItemRef(r) = ref)
        ELSE exits_literal(CHOOSE r \in RoomNames : ExitsRef(r) = ref)]

----------------------------------------------------------------------------
(* class Room, class RoomFactory *)

Room(name, item_dict, exits_dict) ==
    [name |-> name, item |-> item_dict, exits |-> exits_dict]

has_item(self) == IF self.item = None THEN FALSE ELSE TRUE

\* remove_item that leaves the item in the room
remove_item_noop(self, heap) ==
    [self |-> self, dicts |-> heap]

\* remove_item that blanks the shared dictionary before dropping the reference
remove_item_through_reference(self, heap) ==
    [self  |-> [self EXCEPT !.item = None],
     dicts |-> [heap EXCEPT ![self.item].item_name = None]]

\* remove_item that puts an empty dictionary where the item was
remove_item_leaves_empty(self, heap) ==
    [self |-> [self EXCEPT !.item = "{}"], dicts |-> heap]

\* the room after remove_item, and the heap it leaves
remove_item(self, heap) ==
    [self |-> [self EXCEPT !.item = None], dicts |-> heap]

create_room(config_dict, room_name) ==
    LET config == config_dict[room_name]
    IN  Room(config.name, config.item, config.exits)

----------------------------------------------------------------------------
(* class Player *)

Player(first_room) == [current_room |-> first_room, inventory |-> <<>>]

\* the Room object player.current_room refers to
current_room(g) == g.rooms[g.player.current_room]

\* get_item that takes whatever the room holds, whatever name is asked for
get_item_any_name(g, heap, item) ==
    IF has_item(current_room(g))
    THEN LET removed == remove_item(current_room(g), heap)
         IN  [result |-> "You picked up a " \o item \o ".",
              game   |-> [g EXCEPT !.player.inventory = Append(@, item),
                                   !.rooms[g.player.current_room] = removed.self],
              dicts  |-> removed.dicts]
    ELSE [result |-> "Can't get that item.", game |-> g, dicts |-> heap]

\* get_item whose failing branch returns nothing
get_item_no_return(g, heap, item) ==
    IF has_item(current_room(g)) /\ heap[current_room(g).item].item_name = item
    THEN LET removed == remove_item(current_room(g), heap)
         IN  [result |-> "You picked up a " \o item \o ".",
              game   |-> [g EXCEPT !.player.inventory = Append(@, item),
                                   !.rooms[g.player.current_room] = removed.self],
              dicts  |-> removed.dicts]
    ELSE [result |-> None, game |-> g, dicts |-> heap]

\* get_item that appends the item and leaves it in the room
get_item_keeps_item(g, heap, item) ==
    IF has_item(current_room(g)) /\ heap[current_room(g).item].item_name = item
    THEN [result |-> "You picked up a " \o item \o ".",
          game   |-> [g EXCEPT !.player.inventory = Append(@, item)],
          dicts  |-> heap]
    ELSE [result |-> "Can't get that item.", game |-> g, dicts |-> heap]

\* Player.get_item on the player of Game g: [result, game, dicts]
get_item(g, heap, item) ==
    IF has_item(current_room(g)) /\ heap[current_room(g).item].item_name = item
    THEN LET removed == remove_item(current_room(g), heap)
         IN  [result |-> "You picked up a " \o item \o ".",
              game   |-> [g EXCEPT !.player.inventory = Append(@, item),
                                   !.rooms[g.player.current_room] = removed.self],
              dicts  |-> removed.dicts]
    ELSE [result |-> "Can't get that item.", game |-> g, dicts |-> heap]

----------------------------------------------------------------------------
(* class Game *)

TEXT_DIVIDER == "------------------------------"
VALIDATION_MESSAGE == "Please enter a valid move."
WINNING_MESSAGE ==
    "You see el Chupacabras!\nYou toss the goat plushie by its feet. While it's investigating it, you squirt shampoo into its eyes, knock it out with your frying pan, tie it up with your rope, \nand take pictures of it once it's subdued. Luckily, you didn't have to hurt it with your machete.\nYou call Animal Control and become famous for capturing the first live specimen of el Chupacabras. Your goats and chicken are happy.\nCongratulations!"
LOSING_MESSAGE ==
    "You see el Chupacabras!\nYou try to fight it, but don't have enough items to deal with it. You manage to keep it away from your livestock, but it's not leaving hungry.\nYou become the first human victim of el Chupacabras.\nGame over."

\* Game.__init__ that counts the rooms, not the rooms with an item
Game_counts_all_rooms(config_dict) ==
    LET rooms == [room \in RoomNames |-> create_room(config_dict, room)]
    IN  [rooms       |-> rooms,
         player      |-> Player("bedroom"),
         total_items |-> Cardinality(RoomNames)]

\* Game.__init__: the rooms from the factory, the player in the bedroom, the count of rooms with an item
Game(config_dict) ==
    LET rooms == [room \in RoomNames |-> create_room(config_dict, room)]
    IN  [rooms       |-> rooms,
         player      |-> Player("bedroom"),
         total_items |-> Cardinality({room \in RoomNames : has_item(rooms[room])})]

valid_directions == <<"north", "south", "east", "west">>

ValidDirections == {valid_directions[i] : i \in 1..Len(valid_directions)}

\* move_player that stays in place, as a move, when the exit is missing
move_player_default(g, heap, direction) ==
    IF direction \notin ValidDirections
    THEN [result |-> VALIDATION_MESSAGE, game |-> g]
    ELSE LET room_name == IF direction \in DOMAIN heap[current_room(g).exits]
                          THEN heap[current_room(g).exits][direction]
                          ELSE current_room(g).name
         IN  [result |-> "You moved to the " \o room_name \o ".",
              game   |-> [g EXCEPT !.player.current_room = room_name]]

\* move_player that looks the exit up before it checks the direction
move_player_exits_first(g, heap, direction) ==
    IF direction \in DOMAIN heap[current_room(g).exits]
    THEN LET room_name == heap[current_room(g).exits][direction]
         IN  [result |-> "You moved to the " \o room_name \o ".",
              game   |-> [g EXCEPT !.player.current_room = room_name]]
    ELSE IF direction \notin ValidDirections
         THEN [result |-> VALIDATION_MESSAGE, game |-> g]
         ELSE [result |-> "There is no room in that direction.", game |-> g]

\* move_player that makes a new Player in the room moved to
move_player_new_player(g, heap, direction) ==
    IF direction \notin ValidDirections
    THEN [result |-> VALIDATION_MESSAGE, game |-> g]
    ELSE IF direction \in DOMAIN heap[current_room(g).exits]
         THEN LET room_name == heap[current_room(g).exits][direction]
              IN  [result |-> "You moved to the " \o room_name \o ".",
                   game   |-> [g EXCEPT !.player = Player(room_name)]]
         ELSE [result |-> "There is no room in that direction.", game |-> g]

\* Game.move_player: [result, game]
move_player(g, heap, direction) ==
    IF direction \notin ValidDirections
    THEN [result |-> VALIDATION_MESSAGE, game |-> g]
    ELSE IF direction \in DOMAIN heap[current_room(g).exits]
         THEN LET room_name == heap[current_room(g).exits][direction]
              IN  [result |-> "You moved to the " \o room_name \o ".",
                   game   |-> [g EXCEPT !.player.current_room = room_name]]
         ELSE [result |-> "There is no room in that direction.", game |-> g]

\* process_command whose second branch is an else: every verb but go is a get
process_command_else_get(g, heap, user_input) ==
    LET command == Tokens[user_input]
    IN  IF Len(command) = 0
        THEN [result |-> VALIDATION_MESSAGE, game |-> g, dicts |-> heap]
        ELSE IF command[1] = "go"
             THEN IF Len(command) < 2
                  THEN [result |-> VALIDATION_MESSAGE, game |-> g, dicts |-> heap]
                  ELSE LET moved == move_player(g, heap, command[2])
                       IN  [result |-> moved.result, game |-> moved.game,
                            dicts |-> heap]
             ELSE LET desired_item == join(" ", Tail(command))
                  IN  get_item(g, heap, desired_item)

\* process_command that moves by the last token, not the second
process_command_last_token(g, heap, user_input) ==
    LET command == Tokens[user_input]
    IN  IF Len(command) = 0
        THEN [result |-> VALIDATION_MESSAGE, game |-> g, dicts |-> heap]
        ELSE IF command[1] = "go"
             THEN IF Len(command) < 2
                  THEN [result |-> VALIDATION_MESSAGE, game |-> g, dicts |-> heap]
                  ELSE LET moved == move_player(g, heap, command[Len(command)])
                       IN  [result |-> moved.result, game |-> moved.game,
                            dicts |-> heap]
             ELSE IF command[1] = "get"
                  THEN IF Len(command) < 2
                       THEN [result |-> VALIDATION_MESSAGE, game |-> g,
                             dicts |-> heap]
                       ELSE LET desired_item == join(" ", Tail(command))
                            IN  get_item(g, heap, desired_item)
                  ELSE [result |-> VALIDATION_MESSAGE, game |-> g, dicts |-> heap]

\* Game.process_command: [result, game, dicts]
process_command(g, heap, user_input) ==
    LET command == Tokens[user_input]
    IN  IF Len(command) = 0
        THEN [result |-> VALIDATION_MESSAGE, game |-> g, dicts |-> heap]
        ELSE IF command[1] = "go"
             THEN IF Len(command) < 2
                  THEN [result |-> VALIDATION_MESSAGE, game |-> g, dicts |-> heap]
                  ELSE LET moved == move_player(g, heap, command[2])
                       IN  [result |-> moved.result, game |-> moved.game,
                            dicts |-> heap]
             ELSE IF command[1] = "get"
                  THEN IF Len(command) < 2
                       THEN [result |-> VALIDATION_MESSAGE, game |-> g,
                             dicts |-> heap]
                       ELSE LET desired_item == join(" ", Tail(command))
                            IN  get_item(g, heap, desired_item)
                  ELSE [result |-> VALIDATION_MESSAGE, game |-> g, dicts |-> heap]

\* player_outcome with <= for <: the full inventory loses too
player_outcome_le(g) ==
    IF current_room(g).name = "backyard"
    THEN IF Len(g.player.inventory) <= g.total_items THEN "lost"
         ELSE IF Len(g.player.inventory) = g.total_items THEN "won"
         ELSE None
    ELSE None

\* Game.player_outcome; more items than total_items falls off the inner if: None
player_outcome(g) ==
    IF current_room(g).name = "backyard"
    THEN IF Len(g.player.inventory) < g.total_items THEN "lost"
         ELSE IF Len(g.player.inventory) = g.total_items THEN "won"
         ELSE None
    ELSE None

\* play_turn that interprets q as a command as well as quitting on it
play_turn_q_interpreted(g, heap, user_command) ==
    LET quit == Lowered[user_command] = "q"
        r == process_command(g, heap, user_command)
        result == player_outcome(r.game)
    IN  [game             |-> r.game,
         dicts            |-> r.dicts,
         output           |-> <<r.result>> \o <<TEXT_DIVIDER>> \o
                              (IF result = "lost" THEN <<LOSING_MESSAGE>>
                               ELSE IF result = "won" THEN <<WINNING_MESSAGE>>
                               ELSE <<>>),
         player_outcome   |-> result,
         game_is_finished |-> IF result = "lost" \/ result = "won"
                              THEN TRUE ELSE quit]

\* play_turn whose lost branch prints the message and forgets to finish the game
play_turn_lost_goes_on(g, heap, user_command) ==
    LET quit == Lowered[user_command] = "q"
        done == IF quit
                THEN [result |-> <<>>, game |-> g, dicts |-> heap]
                ELSE LET r == process_command(g, heap, user_command)
                     IN  [result |-> <<r.result>>, game |-> r.game,
                          dicts |-> r.dicts]
        result == player_outcome(done.game)
    IN  [game             |-> done.game,
         dicts            |-> done.dicts,
         output           |-> done.result \o <<TEXT_DIVIDER>> \o
                              (IF result = "lost" THEN <<LOSING_MESSAGE>>
                               ELSE IF result = "won" THEN <<WINNING_MESSAGE>>
                               ELSE <<>>),
         player_outcome   |-> result,
         game_is_finished |-> IF result = "won" THEN TRUE ELSE quit]

\* play_turn that strips the line before it compares it with q
play_turn_quit_stripped(g, heap, user_command) ==
    LET quit == Tokens[user_command] = <<"q">>
        done == IF quit
                THEN [result |-> <<>>, game |-> g, dicts |-> heap]
                ELSE LET r == process_command(g, heap, user_command)
                     IN  [result |-> <<r.result>>, game |-> r.game,
                          dicts |-> r.dicts]
        result == player_outcome(done.game)
    IN  [game             |-> done.game,
         dicts            |-> done.dicts,
         output           |-> done.result \o <<TEXT_DIVIDER>> \o
                              (IF result = "lost" THEN <<LOSING_MESSAGE>>
                               ELSE IF result = "won" THEN <<WINNING_MESSAGE>>
                               ELSE <<>>),
         player_outcome   |-> result,
         game_is_finished |-> IF result = "lost" \/ result = "won"
                              THEN TRUE ELSE quit]

\* one iteration of play's loop on the line read at the prompt:
\* [game, dicts, output, player_outcome, game_is_finished]
play_turn(g, heap, user_command) ==
    LET quit == Lowered[user_command] = "q"
        done == IF quit
                THEN [result |-> <<>>, game |-> g, dicts |-> heap]
                ELSE LET r == process_command(g, heap, user_command)
                     IN  [result |-> <<r.result>>, game |-> r.game,
                          dicts |-> r.dicts]
        result == player_outcome(done.game)
    IN  [game             |-> done.game,
         dicts            |-> done.dicts,
         output           |-> done.result \o <<TEXT_DIVIDER>> \o
                              (IF result = "lost" THEN <<LOSING_MESSAGE>>
                               ELSE IF result = "won" THEN <<WINNING_MESSAGE>>
                               ELSE <<>>),
         player_outcome   |-> result,
         game_is_finished |-> IF result = "lost" \/ result = "won"
                              THEN TRUE ELSE quit]

----------------------------------------------------------------------------
(* main and Game.play *)

Init ==
    /\ rooms_config = rooms_config_literal
    /\ dicts = dicts_literal
    /\ game = Game(rooms_config_literal)
    /\ game_is_finished = FALSE
    /\ outcome = Unbound
    /\ output = <<>>
    /\ start_over_input = Unbound
    /\ walked = 0
    /\ pc = "play"

\* lines 394-411: one iteration of the loop, from the prompt to the loop test
PlayTurn(user_command) ==
    /\ pc = "play"
    /\ LET turn == play_turn(game, dicts, user_command)
       IN  /\ game' = turn.game
           /\ dicts' = turn.dicts
           /\ output' = turn.output
           /\ outcome' = turn.player_outcome
           /\ game_is_finished' = turn.game_is_finished
           /\ pc' = IF turn.game_is_finished THEN "play_again" ELSE "play"
    /\ walked' = IF /\ walked # Off
                    /\ walked < Len(Walkthrough)
                    /\ user_command = Walkthrough[walked + 1]
                 THEN walked + 1
                 ELSE Off
    /\ UNCHANGED <<rooms_config, start_over_input>>

\* lines 485-488 and 481-483: the answer, then either the end or a new Game at its first prompt
StartOver(answer) ==
    /\ pc = "play_again"
    /\ start_over_input' = answer
    /\ IF Lowered[answer] # "y"
       THEN /\ pc' = "exit"
            /\ UNCHANGED <<game, game_is_finished, outcome, output, walked>>
       ELSE /\ pc' = "play"
            /\ game' = Game(rooms_config)
            /\ game_is_finished' = FALSE
            /\ outcome' = Unbound
            /\ output' = <<>>
            /\ walked' = 0
    /\ UNCHANGED <<rooms_config, dicts>>

Next ==
    \/ \E user_command \in Inputs : PlayTurn(user_command)
    \/ \E answer \in Answers : StartOver(answer)

Spec == Init /\ [][Next]_vars

----------------------------------------------------------------------------
(* the state the claims speak of *)

room_now == current_room(game).name
inventory == game.player.inventory
NO_ROOM_MESSAGE == "There is no room in that direction."
CANT_GET_MESSAGE == "Can't get that item."
ItemNames == {item_literal(r).item_name : r \in ItemRooms}

\* C1: after every turn the outcome is decided by the player's room and the
\* size of the inventory alone: in the backyard with fewer than total_items
\* (6) items the session has ended LOST with the losing message, in the
\* backyard with exactly total_items items it has ended WON with the winning
\* message, and in any other room player_outcome returned None, no outcome
\* message was printed and the loop goes on unless q was entered.
OutcomeByRoomAndInventory ==
    outcome # Unbound =>
        /\ game.total_items = 6
        /\ (room_now = "backyard" /\ Len(inventory) < game.total_items) =>
              /\ outcome = "lost"
              /\ output[Len(output)] = LOSING_MESSAGE
              /\ WINNING_MESSAGE \notin {output[i] : i \in 1..Len(output)}
              /\ game_is_finished /\ pc # "play"
        /\ (room_now = "backyard" /\ Len(inventory) = game.total_items) =>
              /\ outcome = "won"
              /\ output[Len(output)] = WINNING_MESSAGE
              /\ LOSING_MESSAGE \notin {output[i] : i \in 1..Len(output)}
              /\ game_is_finished /\ pc # "play"
        /\ room_now # "backyard" =>
              /\ outcome = None
              /\ {WINNING_MESSAGE, LOSING_MESSAGE}
                    \cap {output[i] : i \in 1..Len(output)} = {}
              /\ game_is_finished <=> output = <<TEXT_DIVIDER>>
              /\ game_is_finished <=> pc # "play"
        /\ room_now = "backyard" => Len(inventory) <= game.total_items

\* C1 witness: a session that reached the backyard with some but not all items and ended LOST
OutcomeLostReached ==
    /\ pc = "play_again" /\ outcome = "lost"
    /\ room_now = "backyard"
    /\ Len(inventory) \in 1..5
    /\ output = <<"You moved to the backyard.", TEXT_DIVIDER, LOSING_MESSAGE>>

\* C2: at every prompt, q in either case ends the session in that turn: no
\* command is interpreted (nothing but the divider is printed), the game and
\* the configuration are unchanged and neither outcome message is printed;
\* and a session that ended without an outcome printed only the divider.
QuitEndsSessionAtOnce ==
    /\ pc = "play" =>
          \A user_command \in {"q", "Q"} :
              LET turn == play_turn(game, dicts, user_command)
              IN  /\ turn.game_is_finished
                  /\ turn.game = game
                  /\ turn.dicts = dicts
                  /\ turn.output = <<TEXT_DIVIDER>>
                  /\ turn.player_outcome = None
    /\ (game_is_finished /\ outcome = None) =>
          /\ pc # "play"
          /\ output = <<TEXT_DIVIDER>>

\* C2 witness: a session quit after go and get commands, away from the bedroom, with items held
QuitAfterCommandsReached ==
    /\ pc = "play_again" /\ game_is_finished /\ outcome = None
    /\ output = <<TEXT_DIVIDER>>
    /\ room_now = "storage room"
    /\ Len(inventory) = 2

\* C3: the session that reads Walkthrough (which begins go north, get pro
\* camera, go west and ends go east) stays at the prompt and out of the
\* backyard until its last line, has the six items and stands in the storage
\* room before that line, and ends WON with the winning message on it.
WalkthroughWins ==
    /\ SubSeq(Walkthrough, 1, 3) = <<"go north", "get pro camera", "go west">>
    /\ Walkthrough[Len(Walkthrough)] = "go east"
    /\ (walked # Off /\ walked < Len(Walkthrough)) =>
          /\ pc = "play"
          /\ room_now # "backyard"
          /\ outcome \in {Unbound, None}
    /\ walked = Len(Walkthrough) - 1 =>
          /\ room_now = "storage room"
          /\ inventory = <<"pro camera", "shampoo bottle", "frying pan", "rope",
                           "goat plushie", "machete">>
    /\ walked = Len(Walkthrough) =>
          /\ pc # "play" /\ game_is_finished
          /\ outcome = "won"
          /\ room_now = "backyard"
          /\ Len(inventory) = 6
          /\ output = <<"You moved to the backyard.", TEXT_DIVIDER, WINNING_MESSAGE>>

\* C3 witness: the walkthrough has been read to its end and the session is WON
WalkthroughWonReached ==
    /\ walked = Len(Walkthrough)
    /\ outcome = "won"
    /\ output[Len(output)] = WINNING_MESSAGE

\* the item names asked of get_item: the six configured and some that are none of them
ItemProbes ==
    ItemNames \cup {"", "pro", "camera", "Pro Camera", "pro  camera", "None",
                    "goat", "machete "}

\* C4: get_item(n) succeeds exactly when the current room holds an item
\* whose name is n; on success n is appended to the inventory, the room's
\* item becomes absent and nothing else changes, and a second get of n
\* there fails; otherwise it returns "Can't get that item." and the game and
\* the configuration are unchanged.
GetItemIffPresentAndNamed ==
    \A n \in ItemProbes :
        LET got == get_item(game, dicts, n)
            here == game.player.current_room
            held == game.rooms[here].item
        IN  IF held # None /\ dicts[held].item_name = n
            THEN /\ got.result = "You picked up a " \o n \o "."
                 /\ got.game.player.inventory = Append(inventory, n)
                 /\ Len(got.game.player.inventory) = Len(inventory) + 1
                 /\ got.game.rooms[here].item = None
                 /\ \A r \in RoomNames \ {here} : got.game.rooms[r] = game.rooms[r]
                 /\ got.game.player.current_room = here
                 /\ got.game.total_items = game.total_items
                 /\ LET again == get_item(got.game, got.dicts, n)
                    IN  /\ again.result = CANT_GET_MESSAGE
                        /\ again.game = got.game
            ELSE /\ got.result = CANT_GET_MESSAGE
                 /\ got.game = game
                 /\ got.dicts = dicts

\* C4 witness: a get has failed in the living room, whose pro camera is already in the inventory
SecondGetRefusedReached ==
    /\ output = <<CANT_GET_MESSAGE, TEXT_DIVIDER>>
    /\ room_now = "living room"
    /\ inventory = <<"pro camera">>
    /\ game.rooms["living room"].item = None

\* the game with the player put in room r
PlayerIn(r) == [game EXCEPT !.player.current_room = r]

\* C5: with the player in any room, move_player in a cardinal direction that
\* is no key of the room's exits returns "There is no room in that
\* direction." and changes nothing.
NoExitLeavesPlayerInPlace ==
    \A r \in RoomNames :
        \A d \in {"north", "south", "east", "west"} \ DOMAIN exits_literal(r) :
            LET moved == move_player(PlayerIn(r), dicts, d)
            IN  /\ moved.result = NO_ROOM_MESSAGE
                /\ moved.game = PlayerIn(r)

\* C5 witness: a go into a wall of the kids' room has been answered
NoExitAnsweredReached ==
    /\ output = <<NO_ROOM_MESSAGE, TEXT_DIVIDER>>
    /\ room_now = "kids' room"
    /\ pc = "play"

\* C6: a line with no tokens, a line whose first token is neither go nor get
\* and a bare go or get get the validation message from process_command and
\* change nothing; the empty line, blanks, jump, go and get are such lines.
MalformedCommandsRejected ==
    LET Malformed(line) ==
            \/ Len(Tokens[line]) = 0
            \/ Tokens[line][1] \notin {"go", "get"}
            \/ Tokens[line] \in {<<"go">>, <<"get">>}
    IN  /\ \A line \in {"", "   ", "jump", "go", "get"} : Malformed(line)
        /\ \A line \in Inputs :
              Malformed(line) =>
                  LET done == process_command(game, dicts, line)
                  IN  /\ done.result = VALIDATION_MESSAGE
                      /\ done.game = game
                      /\ done.dicts = dicts

\* C6 witness: a line has been answered with the validation message while items are held
ValidationAnsweredReached ==
    /\ output = <<VALIDATION_MESSAGE, TEXT_DIVIDER>>
    /\ Len(inventory) = 3
    /\ pc = "play"

\* C7: go t returns the validation message when t is no cardinal direction
\* and the different message "There is no room in that direction." when t is
\* a cardinal direction the current room has no exit for, the state unchanged
\* in both cases; the direction is checked first: a room whose exits had the
\* key up would still answer go up with the validation message.
InvalidDirectionDistinctFromNoExit ==
    /\ VALIDATION_MESSAGE # NO_ROOM_MESSAGE
    /\ \A line \in Inputs :
          (Len(Tokens[line]) >= 2 /\ Tokens[line][1] = "go") =>
              LET t == Tokens[line][2]
                  done == process_command(game, dicts, line)
              IN  /\ t \notin {"north", "south", "east", "west"} =>
                        /\ done.result = VALIDATION_MESSAGE
                        /\ done.game = game /\ done.dicts = dicts
                  /\ (/\ t \in {"north", "south", "east", "west"}
                      /\ t \notin DOMAIN dicts[current_room(game).exits]) =>
                        /\ done.result = NO_ROOM_MESSAGE
                        /\ done.game = game /\ done.dicts = dicts
    /\ \A t \in {"up", "n", "North", "", "get"} :
          LET with_exit == [dicts EXCEPT ![current_room(game).exits] =
                                             [k \in {t} |-> "bedroom"]]
              moved == move_player(game, with_exit, t)
          IN  /\ moved.result = VALIDATION_MESSAGE
              /\ moved.game = game
              /\ move_player(game, dicts, t) = moved

\* C7 witness: in the bathroom, where go up is invalid and go north has no exit, a line was answered with the validation message
BothRefusalsReached ==
    /\ room_now = "bathroom"
    /\ output = <<VALIDATION_MESSAGE, TEXT_DIVIDER>>
    /\ process_command(game, dicts, "go up").result = VALIDATION_MESSAGE
    /\ process_command(game, dicts, "go north").result = NO_ROOM_MESSAGE

opposite(d) ==
    CASE d = "north" -> "south" [] d = "south" -> "north"
      [] d = "east" -> "west" [] d = "west" -> "east"

\* C8: from every room, a move through any of its exits followed by a move
\* in the opposite direction ends in the room it started from.
RoundTripReturns ==
    \A r \in RoomNames :
        \A d \in DOMAIN dicts[game.rooms[r].exits] :
            LET there == move_player(PlayerIn(r), dicts, d).game
                back  == move_player(there, dicts, opposite(d)).game
            IN  /\ there.player.current_room = dicts[game.rooms[r].exits][d]
                /\ back.player.current_room = r

\* C8 witness: the player went to the garage and came back to the kitchen
RoundTripMadeReached ==
    /\ walked = 10
    /\ room_now = "kitchen"
    /\ output = <<"You moved to the kitchen.", TEXT_DIVIDER>>
    /\ move_player(game, dicts, "north").game.player.current_room = "garage"

InventorySet == {inventory[i] : i \in 1..Len(inventory)}

\* every configured item is in its own room or in the inventory, and nowhere else
ItemsConserved ==
    /\ \A r \in ItemRooms :
          LET n == item_literal(r).item_name
          IN  /\ game.rooms[r].item \in {None, ItemRef(r)}
              /\ game.rooms[r].item # None => dicts[game.rooms[r].item].item_name = n
              /\ game.rooms[r].item # None <=> n \notin InventorySet
    /\ \A r \in RoomNames \ ItemRooms : game.rooms[r].item = None
    /\ InventorySet \subseteq ItemNames
    /\ \A i, j \in 1..Len(inventory) : inventory[i] = inventory[j] => i = j

\* C9: in every state each of the six items is in exactly one place, its own
\* room or the inventory, the inventory has no duplicates, and within a
\* session a room that has lost its item never holds an item again.
ItemConservation ==
    /\ []ItemsConserved
    /\ [][pc = "play" =>
            \A r \in RoomNames :
                game.rooms[r].item = None => game'.rooms[r].item = None]_vars

\* C9 witness: three items are in the inventory, their rooms empty, the other three still in place
ThreeCollectedReached ==
    /\ inventory = <<"goat plushie", "pro camera", "frying pan">>
    /\ \A r \in {"kids' room", "living room", "kitchen"} : game.rooms[r].item = None
    /\ \A r \in {"storage room", "bathroom", "garage"} : game.rooms[r].item # None

\* C10: every Game constructed on replay, like the first, starts with the
\* player in the bedroom, an empty inventory, the six items in their rooms
\* and total_items = 6, and no command ever changes rooms_config or the
\* dictionaries nested in it, which the rooms share.
SessionsIndependent ==
    /\ rooms_config = rooms_config_literal
    /\ dicts = dicts_literal
    /\ (pc = "play" /\ walked = 0) =>
          /\ game.player = [current_room |-> "bedroom", inventory |-> <<>>]
          /\ DOMAIN game.rooms = RoomNames
          /\ \A r \in ItemRooms :
                /\ game.rooms[r].item # None
                /\ dicts[game.rooms[r].item] = item_literal(r)
          /\ \A r \in RoomNames \ ItemRooms : game.rooms[r].item = None
          /\ game.total_items = 6
          /\ game_is_finished = FALSE

\* C10 witness: a Game constructed on replay stands at its first prompt
ReplayedGameReached ==
    /\ start_over_input = "y"
    /\ pc = "play" /\ walked = 0
    /\ inventory = <<>>

\* the strings process_command is to return
AdvisoryMessages ==
    {VALIDATION_MESSAGE, NO_ROOM_MESSAGE, CANT_GET_MESSAGE}
        \cup {"You moved to the " \o r \o "." : r \in RoomNames}
        \cup {"You picked up a " \o n \o "." : n \in ItemNames}

\* C11: in every state process_command answers every line with one of the
\* advisory messages, the lookups it makes being defined (the room an exit
\* names is a room of the game), and a turn at the prompt ends the session
\* exactly when the line is q or the player has arrived in the backyard.
ProcessCommandTotal ==
    /\ \A d \in DOMAIN dicts[current_room(game).exits] :
          dicts[current_room(game).exits][d] \in DOMAIN game.rooms
    /\ \A line \in Inputs :
          LET done == process_command(game, dicts, line)
          IN  /\ done.result \in AdvisoryMessages
              /\ DOMAIN done = {"result", "game", "dicts"}
              /\ done.game.player.current_room \in DOMAIN done.game.rooms
    /\ pc = "play" =>
          \A line \in Inputs :
              LET turn == play_turn(game, dicts, line)
              IN  turn.game_is_finished <=>
                      \/ Lowered[line] = "q"
                      \/ turn.game.player.current_room = "backyard"
    /\ game_is_finished =>
          \/ output = <<TEXT_DIVIDER>>
          \/ room_now = "backyard"

\* C11 witness: three items in, a refused get has been answered and the session goes on
RefusedGetAnsweredReached ==
    /\ pc = "play" /\ ~game_is_finished
    /\ output = <<CANT_GET_MESSAGE, TEXT_DIVIDER>>
    /\ room_now = "bedroom"
    /\ Len(inventory) = 3

\* C12: the inventory never holds more than total_items names, so in the
\* backyard player_outcome returns lost or won, never the None of its
\* missing branch.
InventoryWithinTotal ==
    /\ Len(inventory) <= game.total_items
    /\ player_outcome(PlayerIn("backyard")) \in {"lost", "won"}
    /\ room_now = "backyard" =>
          /\ player_outcome(game) \in {"lost", "won"}
          /\ outcome \in {"lost", "won"}

\* C12 witness: the backyard entered with the full inventory
FullInventoryInBackyardReached ==
    /\ room_now = "backyard"
    /\ Len(inventory) = game.total_items
    /\ outcome = "won"
    /\ inventory[1] = "goat plushie"

\* the session has ended without a command being interpreted
Quit == game_is_finished /\ Len(output) >= 1 /\ output[1] = TEXT_DIVIDER

\* C13: the prompt is never reached with the player in the backyard or the
\* game finished, so the turn that enters the backyard is the session's
\* last and the backyard's west exit is never taken; at most one of WON,
\* LOST and QUIT holds; and an ended session takes no further turn: the
\* next prompt of play, if any, is the first of a new Game.
TerminalStatesAbsorbing ==
    /\ [](pc = "play" => (room_now # "backyard" /\ ~game_is_finished))
    /\ [](room_now = "backyard" => (game_is_finished /\ pc # "play"))
    /\ [](/\ ~({WINNING_MESSAGE, LOSING_MESSAGE}
                   \subseteq {output[i] : i \in 1..Len(output)})
          /\ ~(Quit /\ outcome \in {"won", "lost"})
          /\ (pc # "play" => (Quit \/ outcome \in {"won", "lost"})))
    /\ [][pc # "play" =>
            /\ game' = game \/ (pc' = "play" /\ walked' = 0)
            /\ pc' = "play" => game'.player = Player("bedroom")]_vars

\* C13 witness: the session ended LOST on entering the backyard empty-handed, three turns in
LostOnArrivalReached ==
    /\ pc = "play_again"
    /\ room_now = "backyard"
    /\ outcome = "lost"
    /\ inventory = <<>>
    /\ ~Quit

RoomsHoldingItem == {r \in DOMAIN game.rooms : game.rooms[r].item # None}

\* C14: a Game at its first prompt has the player in the bedroom with an
\* empty inventory and as many rooms holding an item as total_items says;
\* the game always has exactly the eight configured rooms and total_items
\* is 6 in every state, while the rooms holding an item become fewer.
FreshGameAndTotalItems ==
    /\ game.total_items = 6
    /\ Cardinality({r \in RoomNames : rooms_config[r].item # None}) = 6
    /\ DOMAIN game.rooms =
          {"bedroom", "living room", "kids' room", "storage room", "kitchen",
           "bathroom", "garage", "backyard"}
    /\ Cardinality(DOMAIN game.rooms) = 8
    /\ (pc = "play" /\ walked = 0) =>
          /\ game.player.current_room = "bedroom"
          /\ game.player.inventory = <<>>
          /\ Cardinality(RoomsHoldingItem) = game.total_items
    /\ Cardinality(RoomsHoldingItem) = game.total_items - Len(inventory)

\* C14 witness: four items collected, two rooms still hold one, total_items still 6
TotalKeptAfterRemovalsReached ==
    /\ Len(inventory) = 4
    /\ Cardinality(RoomsHoldingItem) = 2
    /\ game.total_items = 6
    /\ pc = "play"

\* C15: move_player changes nothing but the player's current room: the
\* rooms, their items and exits, the inventory and total_items are the same
\* after any move; through an exit the current room becomes the room the
\* exit names and the answer is the moved-to confirmation; a go command
\* leaves the configuration alone.
MoveChangesOnlyCurrentRoom ==
    /\ \A d \in {"north", "south", "east", "west", "up", ""} :
          LET moved == move_player(game, dicts, d)
              exits == exits_literal(room_now)
          IN  /\ moved.game.rooms = game.rooms
              /\ moved.game.player.inventory = inventory
              /\ moved.game.total_items = game.total_items
              /\ DOMAIN moved.game = DOMAIN game
              /\ IF d \in DOMAIN exits
                 THEN /\ moved.game.player.current_room = exits[d]
                      /\ moved.result = "You moved to the " \o exits[d] \o "."
                 ELSE moved.game = game
    /\ \A line \in Inputs :
          (Len(Tokens[line]) >= 1 /\ Tokens[line][1] = "go") =>
              LET done == process_command(game, dicts, line)
              IN  /\ done.dicts = dicts
                  /\ done.game.rooms = game.rooms
                  /\ done.game.player.inventory = inventory

\* C15 witness: the player has moved into the garage carrying three items
MovedWithItemsReached ==
    /\ output = <<"You moved to the garage.", TEXT_DIVIDER>>
    /\ room_now = "garage"
    /\ Len(inventory) = 3
    /\ game.rooms["garage"].item # None

\* C16: the player's current room is one of the eight rooms of the game,
\* each kept under its own name, and every exit of every room names a room
\* of the game, so the lookup of move_player always finds its room.
CurrentRoomAndExitsValid ==
    /\ DOMAIN game.rooms = RoomNames
    /\ Cardinality(DOMAIN game.rooms) = 8
    /\ game.player.current_room \in DOMAIN game.rooms
    /\ \A r \in DOMAIN game.rooms :
          /\ game.rooms[r].name = r
          /\ game.rooms[r].exits \in DOMAIN dicts
          /\ \A d \in DOMAIN dicts[game.rooms[r].exits] :
                dicts[game.rooms[r].exits][d] \in DOMAIN game.rooms

\* C16 witness: the player has moved into the bathroom, a room of the game
MovedIntoBathroomReached ==
    /\ output = <<"You moved to the bathroom.", TEXT_DIVIDER>>
    /\ game.player.current_room = "bathroom"
    /\ game.rooms["bathroom"].name = "bathroom"

\* C17: a go command with more than two tokens is answered, and changes the
\* state, exactly as the go command of its first two tokens; go south now,
\* go up there and go east west are such commands.
GoIgnoresExtraTokens ==
    LET Long == {line \in Inputs :
                    Len(Tokens[line]) > 2 /\ Tokens[line][1] = "go"}
    IN  /\ {"go south now", "go up there", "go east west"} \subseteq Long
        /\ \A line \in Long :
              LET short == "go " \o Tokens[line][2]
              IN  /\ short \in Inputs
                  /\ Tokens[short] = <<"go", Tokens[line][2]>>
                  /\ process_command(game, dicts, line)
                        = process_command(game, dicts, short)
                  /\ pc = "play" =>
                        play_turn(game, dicts, line) = play_turn(game, dicts, short)

\* C17 witness: in the living room after a move, where go south now moves to the bedroom
ExtraTokensMoveReached ==
    /\ pc = "play"
    /\ output = <<"You moved to the living room.", TEXT_DIVIDER>>
    /\ room_now = "living room"
    /\ process_command(game, dicts, "go south now").result
          = "You moved to the bedroom."
    /\ process_command(game, dicts, "go east west").game.player.current_room
          = "kitchen"

\* the get commands with an argument
GetLines == {line \in Inputs : Len(Tokens[line]) >= 2 /\ Tokens[line][1] = "get"}

\* the names, written with single spaces, whose words are the tokens after get
Asked ==
    [line \in GetLines |->
        {n \in ItemNames \cup {"pro", "camera", "go north"} :
            split(n) = Tail(Tokens[line])}]

\* C18: the name a get command asks for is its tokens after get, lowercased
\* and joined by single spaces, whatever the case and the whitespace typed:
\* the command succeeds exactly when the current room holds an item of that
\* name; get pro camera, however typed, picks the pro camera up in the
\* living room, and get pro and get camera are refused everywhere.
GetJoinsLowercasedTokens ==
    /\ Tokens[" get\tPro   Camera "] = <<"get", "pro", "camera">>
    /\ Tokens["get go north"] = <<"get", "go", "north">>
    /\ \A line \in GetLines :
              LET done == process_command(game, dicts, line)
                  held == current_room(game).item
              IN  /\ Cardinality(Asked[line]) = 1
                  /\ \A n \in Asked[line] :
                        IF held # None /\ dicts[held].item_name = n
                        THEN /\ done.result = "You picked up a " \o n \o "."
                             /\ done.game.player.inventory = Append(inventory, n)
                        ELSE /\ done.result = CANT_GET_MESSAGE
                             /\ done.game = game
    /\ (room_now = "living room" /\ current_room(game).item # None) =>
          \A line \in {"get pro camera", " get\tPro   Camera "} :
              /\ process_command(game, dicts, line).result
                    = "You picked up a pro camera."
              /\ process_command(game, dicts, line).game.player.inventory
                    = Append(inventory, "pro camera")
    /\ \A line \in {"get pro", "get camera"} :
          /\ process_command(game, dicts, line).result = CANT_GET_MESSAGE
          /\ process_command(game, dicts, line).game = game

\* C18 witness: the pro camera has been picked up in the living room, second in the inventory
ProCameraPickedUpReached ==
    /\ output = <<"You picked up a pro camera.", TEXT_DIVIDER>>
    /\ room_now = "living room"
    /\ inventory = <<"goat plushie", "pro camera">>

\* C19: after remove_item a room has no item, whether it had one or not,
\* a second remove_item changes nothing, and remove_item changes nothing of
\* the room but its item and nothing of the shared dictionaries.
RemoveItemIdempotent ==
    \A r \in RoomNames :
        LET once  == remove_item(game.rooms[r], dicts)
            twice == remove_item(once.self, once.dicts)
        IN  /\ once.self.item = None
            /\ ~has_item(once.self)
            /\ once.self.name = game.rooms[r].name
            /\ once.self.exits = game.rooms[r].exits
            /\ once.dicts = dicts
            /\ twice = once
            /\ ~has_item(game.rooms[r]) => once.self = game.rooms[r]

\* C19 witness: the machete has been picked up, so remove_item has emptied the storage room, and a further remove_item leaves it as it is
StorageRoomEmptiedReached ==
    /\ output = <<"You picked up a machete.", TEXT_DIVIDER>>
    /\ room_now = "storage room"
    /\ ~has_item(current_room(game))
    /\ remove_item(current_room(game), dicts).self = current_room(game)

\* the turns of play on the lines given, until the session ends:
\* how it stands then and how many lines were left unread
RECURSIVE run(_, _, _)
run(g, heap, lines) ==
    IF lines = <<>>
    THEN [game |-> g, dicts |-> heap, finished |-> FALSE, outcome |-> None,
          left |-> 0]
    ELSE LET turn == play_turn(g, heap, Head(lines))
         IN  IF turn.game_is_finished
             THEN [game |-> turn.game, dicts |-> turn.dicts, finished |-> TRUE,
                   outcome |-> turn.player_outcome, left |-> Len(lines) - 1]
             ELSE run(turn.game, turn.dicts, Tail(lines))

\* go commands from a room to the bedroom, and from the bedroom to a room
Home(r) ==
    CASE r = "bedroom" -> <<>>
      [] r = "living room" -> <<"go south">>
      [] r = "kids' room" -> <<"go west">>
      [] r = "storage room" -> <<"go south", "go south">>
      [] r = "kitchen" -> <<"go west", "go south">>
      [] r = "bathroom" -> <<"go east", "go south">>
      [] r = "garage" -> <<"go south", "go west", "go south">>

Away(r) ==
    CASE r = "bedroom" -> <<>>
      [] r = "living room" -> <<"go north">>
      [] r = "kids' room" -> <<"go east">>
      [] r = "storage room" -> <<"go north", "go north">>
      [] r = "kitchen" -> <<"go north", "go east">>
      [] r = "bathroom" -> <<"go north", "go west">>
      [] r = "garage" -> <<"go north", "go east", "go north">>

\* C20: at every prompt the session can still be won: going to the bedroom
\* and reading Walkthrough from there ends WON on its last line, and with
\* fewer than six items held going straight to the backyard ends LOST; every
\* room but the backyard is reached from the current one by go commands
\* that do not end the session, and every item not held is in its room.
EveryPromptWinnable ==
    pc = "play" =>
        /\ room_now \in RoomNames \ {"backyard"}
        /\ LET won == run(game, dicts, Home(room_now) \o Walkthrough)
           IN  /\ won.finished /\ won.left = 0
               /\ won.outcome = "won"
               /\ Len(won.game.player.inventory) = 6
        /\ Len(inventory) < 6 =>
              LET lost == run(game, dicts,
                              Home(room_now) \o Away("storage room") \o <<"go east">>)
              IN  /\ lost.finished /\ lost.left = 0
                  /\ lost.outcome = "lost"
        /\ \A r \in RoomNames \ {"backyard"} :
              LET there == run(game, dicts, Home(room_now) \o Away(r))
              IN  /\ ~there.finished
                  /\ there.game.player.current_room = r
                  /\ there.game.player.inventory = inventory
        /\ \A r \in ItemRooms :
              item_literal(r).item_name \notin InventorySet =>
                  /\ game.rooms[r].item # None
                  /\ dicts[game.rooms[r].item].item_name = item_literal(r).item_name

\* C20 witness: at the prompt in the garage with the rope taken before the frying pan, a state Walkthrough does not pass through
OffWalkthroughPromptReached ==
    /\ pc = "play" /\ walked = Off
    /\ room_now = "garage"
    /\ inventory = <<"rope", "frying pan">>
    /\ run(game, dicts, Home("garage") \o Walkthrough).outcome = "won"

\* the lines that are not q but look like it
NearlyQuit == {" q", "q ", " Q\t", "quit"}

\* C21: at every prompt a line ends the session as QUIT, no command
\* interpreted, exactly when it is q or Q; every other line is passed to
\* process_command, whose answer is printed and whose state is kept, and does
\* not quit: the session goes on unless the command enters the backyard;
\* q within whitespace and the word quit get the validation message, change
\* nothing and leave the session at the prompt.
QuitOnlyOnExactQ ==
    /\ NearlyQuit \subseteq Inputs
    /\ pc = "play" =>
          \A line \in Inputs :
              LET turn == play_turn(game, dicts, line)
                  done == process_command(game, dicts, line)
                  quits == /\ turn.game_is_finished
                           /\ turn.output = <<TEXT_DIVIDER>>
                           /\ turn.player_outcome = None
              IN  /\ quits <=> line \in {"q", "Q"}
                  /\ line \notin {"q", "Q"} =>
                        /\ turn.output[1] = done.result
                        /\ turn.output[2] = TEXT_DIVIDER
                        /\ turn.game = done.game
                        /\ turn.dicts = done.dicts
                        /\ turn.game_is_finished <=>
                              turn.game.player.current_room = "backyard"
                  /\ line \in NearlyQuit =>
                        /\ turn.output = <<VALIDATION_MESSAGE, TEXT_DIVIDER>>
                        /\ turn.game = game
                        /\ turn.dicts = dicts
                        /\ ~turn.game_is_finished

\* C21 witness: in the garage a line got the validation message and the session is at the prompt, where q would quit and q after a blank would not
NearlyQuitAnsweredReached ==
    /\ pc = "play" /\ ~game_is_finished
    /\ room_now = "garage"
    /\ output = <<VALIDATION_MESSAGE, TEXT_DIVIDER>>
    /\ play_turn(game, dicts, "q").game_is_finished
    /\ ~play_turn(game, dicts, " q").game_is_finished

=============================================================================
